---- MODULE Spec2Model ----
(***************************************************************************)
(* Smart bin Lite (src/smart_bin.py): one pass of the route-optimisation   *)
(* script.  The script runs top to bottom; each action below is one of its *)
(* top-level blocks, and the loop of get_greedy_route is taken one         *)
(* iteration at a time.                                                    *)
(*                                                                         *)
(* Numbers.  Positions are drawn from three corners of the unit square,     *)
(* which gives the edge weights 0, 1 and sqrt(2).                          *)
(* Python floats are modelled in fixed point: a length is held in units of *)
(* 1/Prec, rounded down.  efficiency_saving, the result of a true          *)
(* division, is held as the exact fraction <<numerator, denominator>>.     *)
(***************************************************************************)
EXTENDS Integers, Sequences, FiniteSets

VARIABLES
    num_bins,           \* slider, line 23
    fill_threshold,     \* slider, line 27
    pos,                \* node -> <<x, y>>, line 43
    G,                  \* <<u, v>> -> weight, for the edges of the graph, lines 46-50
    node_fill_levels,   \* node -> percent, lines 56-58
    critical_bins,      \* list of nodes, lines 62-65
    static_route,       \* line 98
    dist_static,        \* line 99
    unvisited,          \* local of get_greedy_route, lines 82-83
    current_node,       \* local of get_greedy_route, line 84
    route,              \* local of get_greedy_route, line 85
    dynamic_route,      \* line 102
    dist_dynamic,       \* line 103
    efficiency_saving,  \* lines 106-109
    pc,                 \* position of the script
    err                 \* the exception that ended the pass, "" if none

vars == <<num_bins, fill_threshold, pos, G, node_fill_levels, critical_bins,
          static_route, dist_static, unvisited, current_node, route,
          dynamic_route, dist_dynamic, efficiency_saving, pc, err>>

(***************************************************************************)
(* Program constants and the bounds of the model.                          *)
(***************************************************************************)
MinBins == 5
MaxBins == 5
depot_node == 0
MaxFill == 100
SCALE == 100
Prec == 100

\* Sampled inputs: the extremes of the two percentages, three corners of the
\* unit square.
Thresholds == {0, MaxFill}
FillSamples == {0, MaxFill}
Points == {<<0, 0>>, <<1, 0>>, <<1, 1>>}

Nodes(n) == 0 .. (n - 1)

\* Values of the variables the script has not assigned yet.
Unset == <<>>
NoDist == 0 - 1

(***************************************************************************)
(* Helpers: Python built-ins as the script uses them.                      *)
(***************************************************************************)
\* math.sqrt on a fixed-point argument: the root of x, rounded down.
ISqrt(x) == CHOOSE r \in 0 .. x : r * r <= x /\ (r + 1) * (r + 1) > x

\* Line 49: Euclidean distance between two positions, in units of 1/Prec.
Euclid(p, q) ==
    ISqrt(Prec * Prec * ((p[1] - q[1]) * (p[1] - q[1]) + (p[2] - q[2]) * (p[2] - q[2])))

\* nx.complete_graph(n): an edge for every pair of distinct nodes, no self-loop.
CompleteEdges(n) == {e \in Nodes(n) \X Nodes(n) : e[1] # e[2]}

\* Lines 46-50: the weighted graph over the positions.
BuildWeights(n, p) == [e \in CompleteEdges(n) |-> Euclid(p[e[1]], p[e[2]])]

\* range(a, b) as a list.
RECURSIVE Range(_, _)
Range(a, b) == IF a >= b THEN <<>> ELSE <<a>> \o Range(a + 1, b)

\* Variant of list.remove that drops nothing.
ListKeep(l, x) == l

\* list.remove(x): drops the first occurrence of x.
RECURSIVE ListRemove(_, _)
ListRemove(l, x) ==
    IF l = <<>> THEN <<>>
    ELSE IF Head(l) = x THEN Tail(l)
    ELSE <<Head(l)>> \o ListRemove(Tail(l), x)

\* Variant of the filter's test that also takes a location exactly at T.
CriticalAtOrAbove(fill, T) == fill >= T

\* Lines 62-65: the filter, over the nodes in the dictionary's insertion order.
CriticalAt(fill, T) == fill > T
RECURSIVE FilterFrom(_, _, _, _)
FilterFrom(levels, T, node, n) ==
    IF node >= n THEN <<>>
    ELSE (IF node # 0 /\ CriticalAt(levels[node], T) THEN <<node>> ELSE <<>>)
         \o FilterFrom(levels, T, node + 1, n)
FilterCritical(levels, T, n) == <<0>> \o FilterFrom(levels, T, 0, n)

\* Variant of the comparison of min that lets a later equal key win.
KeyLessOrEqual(a, b) == a <= b

\* Line 89: min(unvisited, key=...) keeps the first element whose key is
\* strictly below the best so far.
KeyLess(a, b) == a < b
RECURSIVE MinScan(_, _, _, _, _)
MinScan(graph, cur, l, i, best) ==
    IF i > Len(l) THEN best
    ELSE MinScan(graph, cur, l, i + 1,
                 IF KeyLess(graph[<<cur, l[i]>>], graph[<<cur, best>>]) THEN l[i] ELSE best)
NearestNode(graph, cur, l) == MinScan(graph, cur, l, 2, l[1])

\* The lookups of line 89 succeed: every key graph[cur][x] exists.
NearestDefined(graph, cur, l) == \A i \in 1 .. Len(l) : <<cur, l[i]>> \in DOMAIN graph

\* Lines 69-75: calculate_route_distance.
RouteEdgesDefined(graph, r) ==
    \A i \in 1 .. (Len(r) - 1) : <<r[i], r[i + 1]>> \in DOMAIN graph
RECURSIVE SumEdges(_, _, _, _)
SumEdges(graph, r, i, total_dist) ==
    IF i > Len(r) - 1 THEN total_dist
    ELSE SumEdges(graph, r, i + 1, total_dist + graph[<<r[i], r[i + 1]>>])
\* Variant of the distance that leaves out the first pair of the route.
RouteDistanceFromSecond(graph, r) == SumEdges(graph, r, 2, 0) * SCALE
calculate_route_distance(graph, r) == SumEdges(graph, r, 1, 0) * SCALE

\* Variant of the static route that does not return to the depot.
StaticRouteOpen(n) == Range(0, n)

\* Line 98: list(range(num_bins)) + [0].
StaticRouteOf(n) == Range(0, n) \o <<0>>

\* Variant of the saving without the guard on the divisor.
EfficiencyUnguarded(ds, dd) == <<(ds - dd) * 100, ds>>

\* Lines 106-109: the saving as an exact fraction.
EfficiencyOf(ds, dd) ==
    IF ds > 0 THEN <<(ds - dd) * 100, ds>> ELSE <<0, 1>>

(***************************************************************************)
(* The pass.                                                               *)
(***************************************************************************)
Init ==
    /\ num_bins \in MinBins .. MaxBins
    /\ fill_threshold \in Thresholds
    /\ pos = Unset
    /\ G = Unset
    /\ node_fill_levels = Unset
    /\ critical_bins = Unset
    /\ static_route = Unset
    /\ dist_static = NoDist
    /\ unvisited = Unset
    /\ current_node = depot_node
    /\ route = Unset
    /\ dynamic_route = Unset
    /\ dist_dynamic = NoDist
    /\ efficiency_saving = Unset
    /\ pc = "graph"
    /\ err = ""

\* Lines 42-50.
BuildGraph ==
    /\ pc = "graph"
    /\ \E p \in [Nodes(num_bins) -> Points] :
          /\ pos' = p
          /\ G' = BuildWeights(num_bins, p)
    /\ pc' = "fill"
    /\ UNCHANGED <<num_bins, fill_threshold, node_fill_levels, critical_bins,
                   static_route, dist_static, unvisited, current_node, route,
                   dynamic_route, dist_dynamic, efficiency_saving, err>>

\* Lines 56-58.
SimulateFill ==
    /\ pc = "fill"
    /\ \E f \in [Nodes(num_bins) -> FillSamples] :
          /\ f[0] = 0
          /\ node_fill_levels' = f
    /\ pc' = "filter"
    /\ UNCHANGED <<num_bins, fill_threshold, pos, G, critical_bins,
                   static_route, dist_static, unvisited, current_node, route,
                   dynamic_route, dist_dynamic, efficiency_saving, err>>

\* Lines 62-65.
Filter ==
    /\ pc = "filter"
    /\ critical_bins' = FilterCritical(node_fill_levels, fill_threshold, num_bins)
    /\ pc' = "static"
    /\ UNCHANGED <<num_bins, fill_threshold, pos, G, node_fill_levels,
                   static_route, dist_static, unvisited, current_node, route,
                   dynamic_route, dist_dynamic, efficiency_saving, err>>

\* Lines 98-99.
StaticRoute ==
    /\ pc = "static"
    /\ static_route' = StaticRouteOf(num_bins)
    /\ IF RouteEdgesDefined(G, static_route')
       THEN /\ dist_static' = calculate_route_distance(G, static_route')
            /\ pc' = "greedy_call"
            /\ err' = err
       ELSE /\ dist_static' = dist_static
            /\ pc' = "error"
            /\ err' = "KeyError"
    /\ UNCHANGED <<num_bins, fill_threshold, pos, G, node_fill_levels, critical_bins,
                   unvisited, current_node, route,
                   dynamic_route, dist_dynamic, efficiency_saving>>

\* Variant of the entry of get_greedy_route that works on the caller's list
\* instead of a copy of it.
GreedyStartAliased ==
    /\ pc = "greedy_call"
    /\ unvisited' = ListRemove(critical_bins, 0)
    /\ critical_bins' = unvisited'
    /\ current_node' = 0
    /\ route' = <<0>>
    /\ pc' = "greedy_loop"
    /\ UNCHANGED <<num_bins, fill_threshold, pos, G, node_fill_levels,
                   static_route, dist_static,
                   dynamic_route, dist_dynamic, efficiency_saving, err>>

\* Lines 82-85, entered from line 102.
GreedyStart ==
    /\ pc = "greedy_call"
    /\ unvisited' = ListRemove(critical_bins, 0)
    /\ current_node' = 0
    /\ route' = <<0>>
    /\ pc' = "greedy_loop"
    /\ UNCHANGED <<num_bins, fill_threshold, pos, G, node_fill_levels, critical_bins,
                   static_route, dist_static,
                   dynamic_route, dist_dynamic, efficiency_saving, err>>

\* Lines 87-92: one iteration of the loop.
GreedyStep ==
    /\ pc = "greedy_loop"
    /\ unvisited # <<>>
    /\ IF NearestDefined(G, current_node, unvisited)
       THEN LET nearest_node == NearestNode(G, current_node, unvisited) IN
            /\ route' = Append(route, nearest_node)
            /\ unvisited' = ListRemove(unvisited, nearest_node)
            /\ current_node' = nearest_node
            /\ pc' = pc
            /\ err' = err
       ELSE /\ pc' = "error"
            /\ err' = "KeyError"
            /\ UNCHANGED <<route, unvisited, current_node>>
    /\ UNCHANGED <<num_bins, fill_threshold, pos, G, node_fill_levels, critical_bins,
                   static_route, dist_static,
                   dynamic_route, dist_dynamic, efficiency_saving>>

\* Variant of the return of get_greedy_route that does not close the route
\* at the depot.
GreedyReturnOpen ==
    /\ pc = "greedy_loop"
    /\ unvisited = <<>>
    /\ route' = route
    /\ dynamic_route' = route'
    /\ pc' = "dyn_dist"
    /\ UNCHANGED <<num_bins, fill_threshold, pos, G, node_fill_levels, critical_bins,
                   static_route, dist_static, unvisited, current_node,
                   dist_dynamic, efficiency_saving, err>>

\* Lines 94-95, and the assignment of line 102.
GreedyReturn ==
    /\ pc = "greedy_loop"
    /\ unvisited = <<>>
    /\ route' = Append(route, 0)
    /\ dynamic_route' = route'
    /\ pc' = "dyn_dist"
    /\ UNCHANGED <<num_bins, fill_threshold, pos, G, node_fill_levels, critical_bins,
                   static_route, dist_static, unvisited, current_node,
                   dist_dynamic, efficiency_saving, err>>

\* Line 103.
DynamicDistance ==
    /\ pc = "dyn_dist"
    /\ IF RouteEdgesDefined(G, dynamic_route)
       THEN /\ dist_dynamic' = calculate_route_distance(G, dynamic_route)
            /\ pc' = "efficiency"
            /\ err' = err
       ELSE /\ dist_dynamic' = dist_dynamic
            /\ pc' = "error"
            /\ err' = "KeyError"
    /\ UNCHANGED <<num_bins, fill_threshold, pos, G, node_fill_levels, critical_bins,
                   static_route, dist_static, unvisited, current_node, route,
                   dynamic_route, efficiency_saving>>

\* Lines 106-109.
Efficiency ==
    /\ pc = "efficiency"
    /\ efficiency_saving' = EfficiencyOf(dist_static, dist_dynamic)
    /\ pc' = "done"
    /\ UNCHANGED <<num_bins, fill_threshold, pos, G, node_fill_levels, critical_bins,
                   static_route, dist_static, unvisited, current_node, route,
                   dynamic_route, dist_dynamic, err>>

Next ==
    \/ BuildGraph
    \/ SimulateFill
    \/ Filter
    \/ StaticRoute
    \/ GreedyStart
    \/ GreedyStep
    \/ GreedyReturn
    \/ DynamicDistance
    \/ Efficiency

Spec == Init /\ [][Next]_vars

(***************************************************************************)
(* Properties.                                                             *)
(***************************************************************************)
Elems(l) == {l[i] : i \in 1 .. Len(l)}

\* The part of the route built by the loop so far: everything after the
\* opening depot, without the closing depot once it has been appended.
LastChosen == IF pc = "greedy_loop" THEN Len(route) ELSE Len(route) - 1

\* The critical locations still unvisited when position k of the route was chosen.
RemainingAt(k) == Elems(critical_bins) \ {route[j] : j \in 1 .. (k - 1)}

\* C1: the dynamic route starts and ends with the depot, and between the two
\* every critical location other than the depot appears exactly once and
\* nothing else appears.
C1_RouteIsPermutation ==
    dynamic_route # Unset =>
        LET n == Len(dynamic_route) IN
        /\ n >= 2
        /\ dynamic_route[1] = 0
        /\ dynamic_route[n] = 0
        /\ \A i \in 2 .. (n - 1) : dynamic_route[i] \in Elems(critical_bins) \ {0}
        /\ \A c \in Elems(critical_bins) \ {0} :
              Cardinality({i \in 2 .. (n - 1) : dynamic_route[i] = c}) = 1

C1_Witness ==
    /\ dynamic_route # Unset
    /\ Len(dynamic_route) >= 5
    /\ dynamic_route[2] > dynamic_route[3]

\* C2: the critical set always holds the depot, and a non-depot location is
\* in it exactly when its fill level is strictly above the threshold.
C2_FilterStrict ==
    critical_bins # Unset =>
        /\ 0 \in Elems(critical_bins)
        /\ \A i \in 1 .. (num_bins - 1) :
              (i \in Elems(critical_bins)) <=> (node_fill_levels[i] > fill_threshold)

C2_Witness ==
    /\ critical_bins # Unset
    /\ \E i \in 1 .. (num_bins - 1) :
          node_fill_levels[i] = fill_threshold /\ i \notin Elems(critical_bins)
    /\ \E i \in 1 .. (num_bins - 1) : i \in Elems(critical_bins)

\* C3: when the critical set is the depot alone, the dynamic route is [0, 0]
\* and its distance is computed, without an error, as 0.
C3_DepotOnlyDistanceZero ==
    (critical_bins = <<0>> /\ dynamic_route # Unset) =>
        /\ dynamic_route = <<0, 0>>
        /\ pc # "dyn_dist" => (err = "" /\ dist_dynamic = 0)

\* C4: every location the loop appends is nearest to the location before it
\* among the critical locations unvisited at that moment, and is the lowest
\* identifier among those at that minimum weight.
C4_NearestLowestId ==
    route # Unset =>
        \A k \in 2 .. LastChosen :
            \A x \in RemainingAt(k) :
                /\ G[<<route[k - 1], route[k]>>] <= G[<<route[k - 1], x>>]
                /\ G[<<route[k - 1], route[k]>>] = G[<<route[k - 1], x>>] => route[k] <= x

C4_Witness ==
    /\ route # Unset
    /\ \E k \in 2 .. LastChosen :
          /\ \E x \in RemainingAt(k) :
                x > route[k] /\ G[<<route[k - 1], x>>] = G[<<route[k - 1], route[k]>>]
          /\ \E y \in RemainingAt(k) :
                y < route[k] /\ G[<<route[k - 1], y>>] > G[<<route[k - 1], route[k]>>]

\* C5: the static route is 0, 1, ..., n-1 followed by 0, whatever the fill
\* levels, the threshold and the weights are.
C5_StaticRouteIdentity ==
    static_route # Unset =>
        /\ Len(static_route) = num_bins + 1
        /\ \A i \in 1 .. num_bins : static_route[i] = i - 1
        /\ static_route[num_bins + 1] = 0

C5_Witness ==
    /\ static_route # Unset
    /\ Len(critical_bins) > 1
    /\ \E e \in DOMAIN G : G[e] > 0

\* C6: the saving is ((static - dynamic) * 100) / static when static > 0 and 0
\* when static is 0, and the divisor is never 0.
C6_EfficiencyGuarded ==
    pc = "done" =>
        /\ efficiency_saving[2] # 0
        /\ dist_static > 0 =>
              /\ efficiency_saving[1] = (dist_static - dist_dynamic) * 100
              /\ efficiency_saving[2] = dist_static
        /\ dist_static = 0 => efficiency_saving[1] = 0

C6_Witness ==
    /\ pc = "done"
    /\ dist_static > 0
    /\ dist_dynamic > 0
    /\ dist_dynamic < dist_static

\* The sum of the weights of the consecutive pairs of a route, taken over the
\* set of its pair positions.
RECURSIVE PairSum(_, _)
PairSum(r, S) ==
    IF S = {} THEN 0
    ELSE LET i == CHOOSE j \in S : TRUE IN
         G[<<r[i], r[i + 1]>>] + PairSum(r, S \ {i})

\* C7: for a route whose consecutive elements are distinct, the distance is
\* the sum of the weights of all its consecutive pairs, times 100.
C7_DistanceIsScaledSum ==
    /\ dist_static # NoDist =>
          dist_static = 100 * PairSum(static_route, 1 .. (Len(static_route) - 1))
    /\ dist_dynamic # NoDist =>
          dist_dynamic = 100 * PairSum(dynamic_route, 1 .. (Len(dynamic_route) - 1))

C7_Witness ==
    /\ dist_dynamic # NoDist
    /\ Len(dynamic_route) >= 4
    /\ G[<<dynamic_route[1], dynamic_route[2]>>] > 0
    /\ dist_dynamic > 100 * G[<<dynamic_route[1], dynamic_route[2]>>]

\* C9: every iteration of the loop takes exactly one element from the
\* unvisited list and adds one to the route, so the loop ends after
\* |C| - 1 iterations with a route of length |C| + 1.
C9_LoopVariant ==
    /\ [](pc = "greedy_loop" => Len(route) + Len(unvisited) = Len(critical_bins))
    /\ [](dynamic_route # Unset => Len(dynamic_route) = Len(critical_bins) + 1)
    /\ [][(pc = "greedy_loop" /\ pc' = "greedy_loop")
            => (Len(unvisited') = Len(unvisited) - 1 /\ Len(route') = Len(route) + 1)]_vars

C9_Witness ==
    /\ pc = "dyn_dist"
    /\ Len(critical_bins) = num_bins
    /\ Len(dynamic_route) = num_bins + 1

\* C10: planning the dynamic route leaves the critical set as the filter built it.
C10_CriticalUnchanged ==
    [][critical_bins # Unset => critical_bins' = critical_bins]_vars

C10_Witness ==
    /\ pc = "done"
    /\ Len(critical_bins) >= 3
    /\ critical_bins[1] = 0

====
